---- MODULE Spec2Model ----
(***************************************************************************)
(* Model of dcmex/process_opc.py: main() loads a CSV table of particle     *)
(* counter readings, splits it by calendar date and, for each date,        *)
(* creates a netCDF file, fills it, closes it, strips empty variables and  *)
(* renames it from the "mobile" platform name to "kiva-2-lab".             *)
(*                                                                         *)
(* Encoding of values TLA+ has no literal for:                             *)
(*   - an absent timestamp (pandas NaT) is the timestamp record NaT;       *)
(*   - an absent reading (NaN) is the number NaN == -1, readings being     *)
(*     non-negative;                                                       *)
(*   - a text built at run time (a strftime result) is a sequence of       *)
(*     one-character strings;                                              *)
(*   - a float Unix time is the record [s |-> seconds, ms |-> millis].     *)
(***************************************************************************)
EXTENDS Integers, Sequences, FiniteSets, TLC

VARIABLES csv, headers, metadata, template, run, idx, pc, fs, fs1, log, raised

vars == <<csv, headers, metadata, template, run, idx, pc, fs, fs1, log, raised>>

(***************************************************************************)
(* Bounds and input alphabets                                              *)
(***************************************************************************)
MaxRows == 2

NaN == -1

NaT == [y |-> 0, mo |-> 0, d |-> 0, h |-> 0, mi |-> 0, s |-> 0, ms |-> 0]

NaTDate == <<0, 0, 0>>

InputDates == {<<2023, 6, 1>>, <<2024, 12, 31>>}

InputTimesOfDay == {<<0, 0, 0, 0>>, <<23, 59, 59, 500>>}

Timestamps ==
  {NaT} \cup {[y |-> dd[1], mo |-> dd[2], d |-> dd[3],
               h |-> tt[1], mi |-> tt[2], s |-> tt[3], ms |-> tt[4]] :
                 dd \in InputDates, tt \in InputTimesOfDay}

DefaultHeaders == <<"1", "2", "5">>

HeaderChoices == {<<"1">>, <<"1", "2", "5">>, <<"5", "2">>}

\* Reading rows of the width of hdr: nothing present, only the first
\* reading present, every reading present.
ReadingChoices(hdr) ==
  {[i \in 1..Len(hdr) |-> NaN],
   [i \in 1..Len(hdr) |-> IF i = 1 THEN 1500 ELSE NaN],
   [i \in 1..Len(hdr) |-> 250 * i]}

RowChoices(hdr) ==
  {[ts |-> t, readings |-> r] : t \in Timestamps, r \in ReadingChoices(hdr)}

Tables(hdr) ==
  UNION {[1..n -> RowChoices(hdr)] : n \in 1..MaxRows}

DmaAttrs ==
  <<"dma_inner_radius", "dma_outer_radius", "dma_length",
    "impactor_orifice_diameter">>

DmaAttrSet == {DmaAttrs[i] : i \in 1..Len(DmaAttrs)}

\* Global attributes the created file starts with: the template's, among
\* them the four the program deletes, or a template lacking one of them.
TemplateChoices ==
  {DmaAttrSet \cup {"platform"},
   (DmaAttrSet \ {"dma_length"}) \cup {"platform"}}

DefaultTemplate == DmaAttrSet \cup {"platform"}

\* Contents of the metadata side file: attribute name -> value.
MetadataChoices ==
  {[k \in {"institution"} |-> "meta"],
   [k \in {"institution", "dma_length"} |-> "meta"],
   [k \in {"institution"} \cup DmaAttrSet |-> "meta"]}

DefaultMetadata == [k \in {"institution"} |-> "meta"]

(***************************************************************************)
(* Loader: read_csv(...).dropna(how='all'), then dropna over the readings  *)
(***************************************************************************)
IsNaT(t) == t.y = 0

AllReadingsAbsent(row) ==
  \A i \in 1..Len(row.readings) : row.readings[i] = NaN

AllAbsent(row) == IsNaT(row.ts) /\ AllReadingsAbsent(row)

DropAllAbsent(table) == SelectSeq(table, LAMBDA r : ~AllAbsent(r))

\* A loader without the second dropna.
DropNothing(table) == table

DropNoReadings(table) == SelectSeq(table, LAMBDA r : ~AllReadingsAbsent(r))

Loader(table) == DropNoReadings(DropAllAbsent(table))

df == Loader(csv)

(***************************************************************************)
(* Day partitioner: df.iloc[:,0].dt.date.unique() and the day filter       *)
(***************************************************************************)
DateOf(t) == <<t.y, t.mo, t.d>>

RECURSIVE UniqueFrom(_, _, _)
UniqueFrom(table, i, seen) ==
  IF i > Len(table) THEN seen
  ELSE LET dte == DateOf(table[i].ts)
       IN  IF \E j \in 1..Len(seen) : seen[j] = dte
           THEN UniqueFrom(table, i + 1, seen)
           ELSE UniqueFrom(table, i + 1, Append(seen, dte))

UniqueDates(table) == UniqueFrom(table, 1, <<>>)

\* Elementwise ==: a comparison with NaT is False, also of NaT with NaT.
DateEq(a, b) == a # NaTDate /\ b # NaTDate /\ a = b

DayRows(table, dte) == SelectSeq(table, LAMBDA r : DateEq(DateOf(r.ts), dte))

dates == UniqueDates(df)

date == dates[idx]

df_day == DayRows(df, date)

(***************************************************************************)
(* Text formatting (strftime) and calendar arithmetic                      *)
(***************************************************************************)
Digits == <<"0", "1", "2", "3", "4", "5", "6", "7", "8", "9">>

DigitChar(n) == Digits[n + 1]

Pad2(n) == <<DigitChar((n \div 10) % 10), DigitChar(n % 10)>>

Pad4(n) ==
  <<DigitChar((n \div 1000) % 10), DigitChar((n \div 100) % 10)>> \o Pad2(n)

\* date.strftime('%Y%m%d')
StrftimeYmd(dte) == Pad4(dte[1]) \o Pad2(dte[2]) \o Pad2(dte[3])

IsLeap(y) == (y % 4 = 0 /\ y % 100 # 0) \/ y % 400 = 0

DaysInMonth(y, m) ==
  IF m = 2 THEN (IF IsLeap(y) THEN 29 ELSE 28)
  ELSE IF m \in {4, 6, 9, 11} THEN 30 ELSE 31

RECURSIVE DaysBeforeMonth(_, _)
DaysBeforeMonth(y, m) ==
  IF m = 1 THEN 0 ELSE DaysBeforeMonth(y, m - 1) + DaysInMonth(y, m - 1)

\* timetuple().tm_yday
DayOfYear(t) == DaysBeforeMonth(t.y, t.mo) + t.d

DaysBeforeYear(y) ==
  LET p == y - 1 IN p * 365 + p \div 4 - p \div 100 + p \div 400

\* Days since 1970-01-01 of a calendar date.
DaysFromCivil(y, m, d) ==
  DaysBeforeYear(y) + DaysBeforeMonth(y, m) + d - (DaysBeforeYear(1970) + 1)

\* The calendar date of a number of days since 1970-01-01.
RECURSIVE YearOfDays(_, _)
YearOfDays(z, y) ==
  IF DaysFromCivil(y + 1, 1, 1) <= z THEN YearOfDays(z, y + 1) ELSE y

RECURSIVE MonthOfDays(_, _, _)
MonthOfDays(z, y, m) ==
  IF m < 12 /\ DaysFromCivil(y, m + 1, 1) <= z
  THEN MonthOfDays(z, y, m + 1) ELSE m

CivilFromDays(z) ==
  LET y == YearOfDays(z, 1970 + z \div 366)
      m == MonthOfDays(z, y, 1)
  IN  <<y, m, z - DaysFromCivil(y, m, 1) + 1>>

\* i.replace(tzinfo=utc).timestamp(): float seconds since the epoch.
UnixTime(t) ==
  [s  |-> DaysFromCivil(t.y, t.mo, t.d) * 86400
            + t.h * 3600 + t.mi * 60 + t.s,
   ms |-> t.ms]

\* datetime.fromtimestamp(u, utc).strftime("%Y-%m-%dT%H:%M:%S")
FormatUnix(u) ==
  LET dte == CivilFromDays(u.s \div 86400)
      sod == u.s % 86400
  IN  Pad4(dte[1]) \o <<"-">> \o Pad2(dte[2]) \o <<"-">> \o Pad2(dte[3])
        \o <<"T">> \o Pad2(sod \div 3600) \o <<":">>
        \o Pad2((sod \div 60) % 60) \o <<":">> \o Pad2(sod % 60)

(***************************************************************************)
(* Time-field deriver: nant.util.get_times on the day's timestamps         *)
(***************************************************************************)
get_times(rows) ==
  LET n == Len(rows)
      unix == [i \in 1..n |-> UnixTime(rows[i].ts)]
  IN  [unix_times  |-> unix,
       day_of_year |-> [i \in 1..n |-> DayOfYear(rows[i].ts)],
       years       |-> [i \in 1..n |-> rows[i].ts.y],
       months      |-> [i \in 1..n |-> rows[i].ts.mo],
       days        |-> [i \in 1..n |-> rows[i].ts.d],
       hours       |-> [i \in 1..n |-> rows[i].ts.h],
       minutes     |-> [i \in 1..n |-> rows[i].ts.mi],
       seconds     |-> [i \in 1..n |-> rows[i].ts.s],
       time_coverage_start_unix |-> unix[1],
       time_coverage_end_unix   |-> unix[n]]

times == get_times(df_day)

(***************************************************************************)
(* Channel mapper                                                          *)
(***************************************************************************)
\* astype(float) on a column header
AsFloat(h) ==
  CASE h = "1" -> 1
    [] h = "2" -> 2
    [] h = "5" -> 5

LastUpperLimit == 32

\* df_day.iloc[:,1:].values / 1000, a missing value staying missing
PerCm3(v) == IF v = NaN THEN [num |-> NaN, den |-> 1] ELSE [num |-> v, den |-> 1000]

Concentrations(rows) ==
  [i \in 1..Len(rows) |->
     [j \in 1..Len(rows[i].readings) |-> PerCm3(rows[i].readings[j])]]

\* np.array([columns[1:].astype(float)] * len(unix_times))
LowerLimits(hdr, n) ==
  [i \in 1..n |-> [j \in 1..Len(hdr) |-> AsFloat(hdr[j])]]

\* Upper limits that repeat the lower limits instead of shifting them.
UpperLimitsUnshifted(hdr, n) ==
  [i \in 1..n |-> [j \in 1..Len(hdr) |->
     IF j = Len(hdr) THEN LastUpperLimit ELSE AsFloat(hdr[j])]]

\* np.array([np.append(columns[2:].astype(float), 32)] * len(unix_times))
UpperLimits(hdr, n) ==
  [i \in 1..n |->
     Append([j \in 1..(Len(hdr) - 1) |-> AsFloat(hdr[j + 1])], LastUpperLimit)]

(***************************************************************************)
(* Output files.  A file name                                              *)
(*   {loc}/ncas-opc-1_{platform}_{YYYYMMDD}_aerosol-size-distribution_v1.0.nc *)
(* is the record of its two varying segments.  fs maps the names of the    *)
(* files of the output directory to their contents.                        *)
(***************************************************************************)
FileName(platform, dte) == [platform |-> platform, label |-> StrftimeYmd(dte)]

MobileName(dte) == FileName("mobile", dte)

KivaName(dte) == FileName("kiva-2-lab", dte)

VariableNames ==
  <<"ambient_aerosol_number_per_channel", "measurement_channel_lower_limit",
    "measurement_channel_upper_limit", "time", "day_of_year", "year", "month",
    "day", "hour", "minute", "second", "latitude", "longitude">>

CoverageAttrs == <<"geospatial_bounds", "time_coverage_start", "time_coverage_end">>

\* Steps with the attribute deletion ahead of the metadata merge.
StepsDeleteBeforeMerge ==
  <<"create">> \o VariableNames \o CoverageAttrs \o DmaAttrs
    \o <<"add_metadata", "close", "remove_empty_variables", "rename">>

\* Steps with the rename ahead of the strip.
StepsRenameBeforeStrip ==
  <<"create">> \o VariableNames \o CoverageAttrs \o <<"add_metadata">>
    \o DmaAttrs \o <<"close", "rename", "remove_empty_variables">>

\* Steps with the close ahead of the coverage attributes.
StepsCloseEarly ==
  <<"create">> \o VariableNames \o <<"close">> \o CoverageAttrs
    \o <<"add_metadata">> \o DmaAttrs \o <<"remove_empty_variables", "rename">>

\* The statements of one pass of the loop body, from the file's creation
\* on, in program order.
Steps ==
  <<"create">> \o VariableNames \o CoverageAttrs \o <<"add_metadata">>
    \o DmaAttrs \o <<"close", "remove_empty_variables", "rename">>

StepIndex(step) == CHOOSE i \in 1..Len(Steps) : Steps[i] = step

\* The statement that follows step; after the last one, the loop head.
NextPc(step) ==
  IF StepIndex(step) = Len(Steps) THEN "loop" ELSE Steps[StepIndex(step) + 1]

IsVariable(step) == \E i \in 1..Len(VariableNames) : VariableNames[i] = step

IsDmaAttr(step) == step \in DmaAttrSet

\* The value each update_variable call writes.
VariableValue(name) ==
  CASE name = "ambient_aerosol_number_per_channel" -> Concentrations(df_day)
    [] name = "measurement_channel_lower_limit" ->
         LowerLimits(headers, Len(times.unix_times))
    [] name = "measurement_channel_upper_limit" ->
         UpperLimits(headers, Len(times.unix_times))
    [] name = "time" -> times.unix_times
    [] name = "day_of_year" -> times.day_of_year
    [] name = "year" -> times.years
    [] name = "month" -> times.months
    [] name = "day" -> times.days
    [] name = "hour" -> times.hours
    [] name = "minute" -> times.minutes
    [] name = "second" -> times.seconds
    [] name = "latitude" -> <<"33.9913">>
    [] name = "longitude" -> <<"-107.1880">>

\* The value each setncattr call of the loop body writes.
AttrValue(name) ==
  CASE name = "geospatial_bounds" -> <<"33.9913N, -107.1880E">>
    [] name = "time_coverage_start" -> FormatUnix(times.time_coverage_start_unix)
    [] name = "time_coverage_end" -> FormatUnix(times.time_coverage_end_unix)

\* f extended or overwritten at key k.
Put(f, k, v) == [x \in DOMAIN f \cup {k} |-> IF x = k THEN v ELSE f[x]]

Without(f, k) == [x \in DOMAIN f \ {k} |-> f[x]]

\* nant.create_netcdf.main(..., return_open=True): a new file under the
\* "mobile" name, replacing one of that name.
NewFile ==
  [dims  |-> [time |-> Len(times.unix_times),
              \* df_day.shape[1] - 1: the Datetime column is not a header here
              index |-> (Len(headers) + 1) - 1],
   vars  |-> <<>>,
   attrs |-> [k \in template |-> <<"template">>],
   stage |-> "open"]

\* nant.util.add_metadata_to_netcdf: every pair of the side file is set.
MergeMetadata(attrs) ==
  [k \in DOMAIN attrs \cup DOMAIN metadata |->
     IF k \in DOMAIN metadata THEN <<metadata[k]>> ELSE attrs[k]]

\* A variable whose values are all missing.
IsEmptyVariable(name, value) ==
  /\ name = "ambient_aerosol_number_per_channel"
  /\ \A i \in 1..Len(value) : \A j \in 1..Len(value[i]) : value[i][j].num = NaN

\* nant.remove_empty_variables.main(path)
StripEmpty(file) ==
  [file EXCEPT
     !.vars = [n \in {m \in DOMAIN file.vars : ~IsEmptyVariable(m, file.vars[m])}
                 |-> file.vars[n]],
     !.stage = "stripped"]

\* A rename that copies and keeps the source.
RenameKeepsSource(files, src, dst) == Put(files, dst, files[src])

\* A rename that gives up when the destination exists.
RenameNoReplace(files, src, dst) ==
  IF dst \in DOMAIN files THEN files ELSE Without(Put(files, dst, files[src]), src)

\* os.rename(src, dst): dst is replaced when it exists.
RenameFile(files, src, dst) == Without(Put(files, dst, files[src]), src)

\* An error handler that skips to the next group.
OnErrorContinue(i) == [pc |-> "loop", idx |-> i + 1]

\* The loop body has no try/except: an exception raised by a statement of
\* group i leaves main(), and no later statement runs.
OnError(i) == [pc |-> "aborted", idx |-> i]

(***************************************************************************)
(* Initial states: main() is entered with an input table of at least one   *)
(* data row, a metadata side file and an empty output directory.           *)
(***************************************************************************)
Stamp(dte, tod) ==
  [y |-> dte[1], mo |-> dte[2], d |-> dte[3],
   h |-> tod[1], mi |-> tod[2], s |-> tod[3], ms |-> tod[4]]

FullReadings(hdr) == [i \in 1..Len(hdr) |-> 250 * i]

\* Rows of three days, those of the first day not adjacent, and a row of
\* a fourth day that has a timestamp and no reading.
ExampleTable(hdr) ==
  <<[ts |-> Stamp(<<2023, 6, 1>>, <<0, 0, 0, 0>>), readings |-> FullReadings(hdr)],
    [ts |-> Stamp(<<2023, 6, 2>>, <<0, 0, 1, 0>>), readings |-> FullReadings(hdr)],
    [ts |-> Stamp(<<2023, 6, 3>>, <<7, 8, 9, 0>>),
     readings |-> [i \in 1..Len(hdr) |-> NaN]],
    [ts |-> Stamp(<<2023, 6, 1>>, <<12, 30, 15, 0>>), readings |-> FullReadings(hdr)],
    [ts |-> Stamp(<<2024, 2, 29>>, <<23, 59, 59, 500>>), readings |-> FullReadings(hdr)]>>

InitCommon ==
  /\ run = 1
  /\ idx = 1
  /\ pc = "loop"
  /\ fs = <<>>
  /\ fs1 = <<>>
  /\ log = <<>>
  /\ raised = <<>>

\* Any table of up to MaxRows rows under the default schema.
InitTables ==
  /\ headers = DefaultHeaders
  /\ csv \in Tables(DefaultHeaders)
  /\ metadata = DefaultMetadata
  /\ template = DefaultTemplate
  /\ InitCommon

\* The example table under any schema, side file and template.
InitSchemas ==
  /\ headers \in HeaderChoices
  /\ csv = ExampleTable(headers)
  /\ metadata \in MetadataChoices
  /\ template \in TemplateChoices
  /\ InitCommon

Init == InitTables \/ InitSchemas

(***************************************************************************)
(* Actions: one per statement kind of main()                               *)
(***************************************************************************)
inputs == <<csv, headers, metadata, template>>

Advance ==
  /\ log' = Append(log, <<idx, pc>>)
  /\ pc' = NextPc(pc)
  /\ idx' = IF NextPc(pc) = "loop" THEN idx + 1 ELSE idx
  /\ UNCHANGED <<inputs, run, fs1, raised>>

Raise ==
  /\ raised' = Append(raised, [idx |-> idx, step |-> pc])
  /\ pc' = OnError(idx).pc
  /\ idx' = OnError(idx).idx
  /\ UNCHANGED <<inputs, run, fs, fs1, log>>

\* for date in ...unique(): the day's rows are filtered and get_times runs.
LoopNext ==
  /\ pc = "loop"
  /\ idx <= Len(dates)
  /\ date # NaTDate
  /\ pc' = "create"
  /\ UNCHANGED <<inputs, run, idx, fs, fs1, log, raised>>

\* The group of the NaT key: no row compares equal to NaT, get_times is
\* handed no timestamp and NaT.strftime raises.
LoopNaT ==
  /\ pc = "loop"
  /\ idx <= Len(dates)
  /\ date = NaTDate
  /\ Raise

\* The loop is exhausted and main() returns.
LoopExit ==
  /\ pc = "loop"
  /\ idx > Len(dates)
  /\ pc' = "done"
  /\ fs1' = IF run = 1 THEN fs ELSE fs1
  /\ UNCHANGED <<inputs, run, idx, fs, log, raised>>

Create ==
  /\ pc = "create"
  /\ fs' = Put(fs, MobileName(date), NewFile)
  /\ Advance

UpdateVariable ==
  /\ IsVariable(pc)
  /\ fs' = [fs EXCEPT ![MobileName(date)].vars = Put(@, pc, VariableValue(pc))]
  /\ Advance

SetAttr ==
  /\ pc \in {CoverageAttrs[i] : i \in 1..Len(CoverageAttrs)}
  /\ fs' = [fs EXCEPT ![MobileName(date)].attrs = Put(@, pc, AttrValue(pc))]
  /\ Advance

AddMetadata ==
  /\ pc = "add_metadata"
  /\ fs' = [fs EXCEPT ![MobileName(date)].attrs = MergeMetadata(@)]
  /\ Advance

DelAttr ==
  /\ IsDmaAttr(pc)
  /\ pc \in DOMAIN fs[MobileName(date)].attrs
  /\ fs' = [fs EXCEPT ![MobileName(date)].attrs = Without(@, pc)]
  /\ Advance

\* delncattr of an attribute the file does not have raises.
DelMissingAttr ==
  /\ IsDmaAttr(pc)
  /\ pc \notin DOMAIN fs[MobileName(date)].attrs
  /\ Raise

Close ==
  /\ pc = "close"
  /\ fs' = [fs EXCEPT ![MobileName(date)].stage = "closed"]
  /\ Advance

RemoveEmptyVariables ==
  /\ pc = "remove_empty_variables"
  /\ fs' = [fs EXCEPT ![MobileName(date)] = StripEmpty(@)]
  /\ Advance

Rename ==
  /\ pc = "rename"
  /\ fs' = RenameFile(fs, MobileName(date), KivaName(date))
  /\ Advance

\* Any library or system call of the loop body may raise (an I/O error, a
\* full disk); the statement then has had no effect.
Fail ==
  /\ \E i \in 1..Len(Steps) : Steps[i] = pc
  /\ Raise

\* main() is run again on the same input and output directory.
Rerun ==
  /\ pc = "done"
  /\ run = 1
  /\ run' = 2
  /\ idx' = 1
  /\ pc' = "loop"
  /\ log' = <<>>
  /\ UNCHANGED <<inputs, fs, fs1, raised>>

Next ==
  \/ LoopNext
  \/ LoopNaT
  \/ LoopExit
  \/ Create
  \/ UpdateVariable
  \/ SetAttr
  \/ AddMetadata
  \/ DelAttr
  \/ DelMissingAttr
  \/ Close
  \/ RemoveEmptyVariables
  \/ Rename
  \/ Fail
  \/ Rerun

Spec == Init /\ [][Next]_vars

(***************************************************************************)
(* Vocabulary of the properties, stated on the input table and the files   *)
(***************************************************************************)
HasTimestamp(row) == row.ts.y # 0

HasReading(row) == \E i \in 1..Len(row.readings) : row.readings[i] # NaN

\* Input rows the loader keeps.
Survivors == {i \in 1..Len(csv) : HasReading(csv[i])}

\* Input rows of one date that carry a timestamp and a reading, in input order.
RowsOn(dte) ==
  SelectSeq(csv, LAMBDA r : HasTimestamp(r) /\ HasReading(r) /\ DateOf(r.ts) = dte)

DigitValue(c) == CHOOSE n \in 0..9 : Digits[n + 1] = c

\* The date a YYYYMMDD label reads as.
LabelDate(label) ==
  <<1000 * DigitValue(label[1]) + 100 * DigitValue(label[2])
      + 10 * DigitValue(label[3]) + DigitValue(label[4]),
    10 * DigitValue(label[5]) + DigitValue(label[6]),
    10 * DigitValue(label[7]) + DigitValue(label[8])>>

Finalized(n) == n \in DOMAIN fs /\ n.platform = "kiva-2-lab"

\* t is not later than u.
NotLater(t, u) ==
  \/ UnixTime(t).s < UnixTime(u).s
  \/ UnixTime(t).s = UnixTime(u).s /\ t.ms <= u.ms

MinTimestamp(rows) ==
  rows[CHOOSE i \in 1..Len(rows) :
         \A j \in 1..Len(rows) : NotLater(rows[i].ts, rows[j].ts)].ts

MaxTimestamp(rows) ==
  rows[CHOOSE i \in 1..Len(rows) :
         \A j \in 1..Len(rows) : NotLater(rows[j].ts, rows[i].ts)].ts

\* A timestamp written as YYYY-MM-DDTHH:MM:SS, its fraction dropped.
FormatTimestamp(t) ==
  Pad4(t.y) \o <<"-">> \o Pad2(t.mo) \o <<"-">> \o Pad2(t.d) \o <<"T">>
    \o Pad2(t.h) \o <<":">> \o Pad2(t.mi) \o <<":">> \o Pad2(t.s)

VariableSet == {VariableNames[i] : i \in 1..Len(VariableNames)}

CoverageSet == {CoverageAttrs[i] : i \in 1..Len(CoverageAttrs)}

WriteSteps == VariableSet \cup CoverageSet \cup {"add_metadata"} \cup DmaAttrSet

Populated(f) ==
  /\ VariableSet \subseteq DOMAIN f.vars
  /\ CoverageSet \subseteq DOMAIN f.attrs
  /\ DOMAIN metadata \ DmaAttrSet \subseteq DOMAIN f.attrs

\* Step st of group g is in the log.
Logged(g, st) == \E p \in 1..Len(log) : log[p] = <<g, st>>

(***************************************************************************)
(* C1: when main() has returned, the dates read from the file names are    *)
(* exactly the dates of the rows the loader kept, one file per date, and   *)
(* every file bears the "kiva-2-lab" platform segment.                     *)
(***************************************************************************)
C1_LabelsAreSurvivingDates ==
  pc = "done" =>
    /\ \A n \in DOMAIN fs : n.platform = "kiva-2-lab"
    /\ {LabelDate(n.label) : n \in DOMAIN fs}
         = {DateOf(csv[i].ts) : i \in Survivors}
    /\ Cardinality(DOMAIN fs)
         = Cardinality({DateOf(csv[i].ts) : i \in Survivors})

C1_Witness ==
  /\ pc = "done"
  /\ Cardinality(DOMAIN fs) = 3
  /\ Cardinality(Survivors) < Len(csv)

(***************************************************************************)
(* C2: every row the loader keeps, a row with an absent timestamp and a    *)
(* reading included, belongs to exactly one day group, and the groups      *)
(* together hold every kept row.                                           *)
(***************************************************************************)
GroupsOf(i) == {k \in 1..Len(dates) : DateEq(DateOf(df[i].ts), dates[k])}

C2_EveryRowInOneGroup ==
  pc # "loop" \/ idx > 1 =>
    /\ \A i \in 1..Len(df) : Cardinality(GroupsOf(i)) = 1
    /\ \A k \in 1..Len(dates) :
         DayRows(df, dates[k]) = SelectSeq(df, LAMBDA r : DateOf(r.ts) = dates[k])

(***************************************************************************)
(* C3: a row with a timestamp and no reading adds no entry to the time     *)
(* dimension of any file; a row with a timestamp and at least one reading  *)
(* is kept by the loader and is an entry of the file of its date.          *)
(***************************************************************************)
C3_RowsInTimeDimension ==
  /\ \A i \in 1..Len(csv) :
       HasTimestamp(csv[i]) /\ HasReading(csv[i])
         => /\ \E j \in 1..Len(df) : df[j] = csv[i]
            /\ pc = "done" => Finalized(KivaName(DateOf(csv[i].ts)))
  /\ \A n \in DOMAIN fs :
       LET rows == RowsOn(LabelDate(n.label))
       IN  /\ fs[n].dims.time = Len(rows)
           /\ Finalized(n) => "time" \in DOMAIN fs[n].vars
           /\ "time" \in DOMAIN fs[n].vars
                => fs[n].vars["time"] = [k \in 1..Len(rows) |-> UnixTime(rows[k].ts)]

C3_Witness ==
  /\ pc = "done"
  /\ \E i, j \in 1..Len(csv) :
       /\ HasTimestamp(csv[i]) /\ ~HasReading(csv[i])
       /\ HasTimestamp(csv[j]) /\ HasReading(csv[j])
       /\ \E k \in 1..Len(csv[j].readings) : csv[j].readings[k] = NaN
       /\ DateOf(csv[i].ts) = DateOf(csv[j].ts)
       /\ Finalized(KivaName(DateOf(csv[j].ts)))

(***************************************************************************)
(* C4: in every file the index dimension is the column count less one;     *)
(* the lower bound of channel j is the header of reading column j; the     *)
(* upper bound of a channel before the last is the next channel's lower    *)
(* bound and the last channel's is 32; every time step holds the same row. *)
(***************************************************************************)
C4_ChannelBounds ==
  \A n \in DOMAIN fs :
    LET f == fs[n]
        lo == "measurement_channel_lower_limit"
        up == "measurement_channel_upper_limit"
        columns == Len(headers) + 1
    IN  /\ f.dims.index = columns - 1
        /\ Finalized(n) => {lo, up} \subseteq DOMAIN f.vars
        /\ lo \in DOMAIN f.vars =>
             /\ Len(f.vars[lo]) = f.dims.time
             /\ \A r \in 1..Len(f.vars[lo]) :
                  /\ Len(f.vars[lo][r]) = f.dims.index
                  /\ \A j \in 1..f.dims.index :
                       f.vars[lo][r][j] = AsFloat(headers[j])
        /\ up \in DOMAIN f.vars =>
             /\ Len(f.vars[up]) = f.dims.time
             /\ \A r \in 1..Len(f.vars[up]) :
                  /\ Len(f.vars[up][r]) = f.dims.index
                  /\ \A j \in 1..(f.dims.index - 1) :
                       f.vars[up][r][j] = f.vars[lo][r][j + 1]
                  /\ f.vars[up][r][f.dims.index] = 32

C4_Witness ==
  \E n \in DOMAIN fs :
    /\ Finalized(n)
    /\ Len(headers) = 1
    /\ fs[n].dims.time = 2

(***************************************************************************)
(* C5: in every finalized file time_coverage_start and time_coverage_end   *)
(* are the earliest and the latest timestamp of the day's kept rows,       *)
(* whatever the order of the rows, written to the second.                  *)
(***************************************************************************)
C5_CoverageIsMinMax ==
  \A n \in DOMAIN fs :
    Finalized(n) =>
      LET rows == RowsOn(LabelDate(n.label))
      IN  /\ fs[n].attrs["time_coverage_start"] = FormatTimestamp(MinTimestamp(rows))
          /\ fs[n].attrs["time_coverage_end"] = FormatTimestamp(MaxTimestamp(rows))

(***************************************************************************)
(* C6: no finalized file has any of the four dma/impactor attributes,      *)
(* whatever the metadata side file merged in.                              *)
(***************************************************************************)
C6_NoExcludedAttrs ==
  \A n \in DOMAIN fs :
    Finalized(n) => DOMAIN fs[n].attrs \cap DmaAttrSet = {}

C6_Witness ==
  /\ \E n \in DOMAIN fs : Finalized(n) /\ "institution" \in DOMAIN fs[n].attrs
  /\ "dma_length" \in DOMAIN metadata
  /\ "dma_length" \notin template

(***************************************************************************)
(* C7: a second run on the same input, into the directory the first run    *)
(* filled, ends with the same file names and contents as the first.        *)
(***************************************************************************)
C7_SecondRunSameFiles ==
  pc = "done" /\ run = 2 =>
    /\ fs = fs1
    /\ \A n \in DOMAIN fs : n.platform = "kiva-2-lab"

C7_Witness ==
  /\ pc = "done"
  /\ run = 2
  /\ Cardinality(DOMAIN fs) >= 2

(***************************************************************************)
(* C8: an exception in a day group leaves main(): nothing runs after it,   *)
(* no file exists for a later group, the files of the groups completed     *)
(* before it are finalized, and a finalized file never changes.            *)
(***************************************************************************)
C8_AbortState ==
  raised # <<>> =>
    /\ pc = "aborted"
    /\ Len(raised) = 1
    /\ \A p \in 1..Len(log) : log[p][1] <= raised[1].idx
    /\ \A j \in (raised[1].idx + 1)..Len(dates) :
         dates[j] # NaTDate =>
           /\ MobileName(dates[j]) \notin DOMAIN fs
           /\ run = 1 => KivaName(dates[j]) \notin DOMAIN fs
           /\ run = 2 => fs[KivaName(dates[j])] = fs1[KivaName(dates[j])]
    /\ \A j \in 1..(raised[1].idx - 1) :
         /\ Finalized(KivaName(dates[j]))
         /\ fs[KivaName(dates[j])].stage = "stripped"
         /\ MobileName(dates[j]) \notin DOMAIN fs

\* C8: the abort condition holds in every state, and no step changes or
\* removes a file that bears the "kiva-2-lab" name.
C8_FailurePropagates ==
  /\ []C8_AbortState
  /\ [][\A n \in DOMAIN fs :
          n.platform = "kiva-2-lab" => n \in DOMAIN fs' /\ fs'[n] = fs[n]]_vars

C8_Witness ==
  /\ raised # <<>>
  /\ raised[1].idx = 2
  /\ Len(dates) = 3
  /\ Finalized(KivaName(dates[1]))

(***************************************************************************)
(* C9: a file under the "kiva-2-lab" name has been populated, closed and   *)
(* stripped; when the strip or the rename fails the day's file stays under *)
(* the "mobile" name as it was before the failing step, and the run makes  *)
(* no "kiva-2-lab" file for that day.                                      *)
(***************************************************************************)
C9_NoHalfWrittenFinalFile ==
  /\ \A n \in DOMAIN fs :
       Finalized(n) => fs[n].stage = "stripped" /\ Populated(fs[n])
  /\ raised # <<>> /\ raised[1].step \in {"remove_empty_variables", "rename"} =>
       LET dte == dates[raised[1].idx]
       IN  /\ MobileName(dte) \in DOMAIN fs
           /\ Populated(fs[MobileName(dte)])
           /\ fs[MobileName(dte)].stage
                = IF raised[1].step = "rename" THEN "stripped" ELSE "closed"
           /\ run = 1 => KivaName(dte) \notin DOMAIN fs
           /\ run = 2 => fs[KivaName(dte)] = fs1[KivaName(dte)]

C9_Witness ==
  /\ raised # <<>>
  /\ raised[1].step = "rename"
  /\ raised[1].idx = 2
  /\ fs[MobileName(dates[2])].stage = "stripped"

(***************************************************************************)
(* C10: in each day group the creation comes first, the thirteen variable  *)
(* writes follow in their order, every write, attribute, merge and         *)
(* deletion precedes the close, the strip follows the close and the rename *)
(* the strip, nothing is written after the close, and a group's creation   *)
(* follows the previous group's rename.  The log grows by one entry per    *)
(* executed statement, so the property is stated of its newest entry: it   *)
(* then holds of every entry, each having been the newest in some state.   *)
(***************************************************************************)
C10_StepOrder ==
  /\ pc = "remove_empty_variables" => fs[MobileName(date)].stage = "closed"
  /\ pc = "rename" => fs[MobileName(date)].stage = "stripped"
  /\ log # <<>> =>
       LET p == Len(log)
           g == log[p][1]
           st == log[p][2]
           earlier == {log[q][2] : q \in {r \in 1..(p - 1) : log[r][1] = g}}
       IN  /\ st \notin earlier
           /\ \A q \in 1..p : log[q][1] <= g
           /\ st = "create" =>
                /\ earlier = {}
                /\ g = 1 => p = 1
                /\ g > 1 => log[p - 1] = <<g - 1, "rename">>
           /\ st # "create" => "create" \in earlier
           /\ \A i \in 1..Len(VariableNames) :
                st = VariableNames[i] =>
                  earlier \cap VariableSet = {VariableNames[j] : j \in 1..(i - 1)}
           /\ st \in CoverageSet \cup {"add_metadata"} \cup DmaAttrSet =>
                VariableSet \subseteq earlier
           /\ st \in DmaAttrSet => "add_metadata" \in earlier
           /\ st \in WriteSteps => "close" \notin earlier
           /\ st = "close" => earlier = WriteSteps \cup {"create"}
           /\ st = "remove_empty_variables" =>
                "close" \in earlier /\ "rename" \notin earlier
           /\ st = "rename" => "remove_empty_variables" \in earlier

C10_Witness ==
  /\ pc = "done"
  /\ Logged(1, "rename")
  /\ Logged(2, "rename")
  /\ Logged(3, "rename")

====
